---- MODULE Spec2Model ----
(***************************************************************************)
(* A model of package llog (src/llog.go): the level gate, the KV helpers,  *)
(* the line formatter entry.printOut and the single worker goroutine that  *)
(* drains entryCh and writes every entry to Out.                           *)
(*                                                                         *)
(* Go strings are sequences of bytes (numbers 0..127); a KV map is a       *)
(* function from keys to values; a KV reference is an index into a heap of *)
(* maps, 0 being the nil map.                                              *)
(***************************************************************************)
EXTENDS Integers, Sequences, FiniteSets, TLC

VARIABLES
    Out,               \* the configured sink: [id, sync, flush]
    DisplayTimestamp,  \* the timestamp flag
    currLevel,         \* the threshold, guarded by currLevelLock
    pc,                \* per producer: "idle", "send", "wait", "done"
    pend,              \* per producer: the entry it is sending on entryCh
    blockCh,           \* per producer: the channel made by Fatal
    ret,               \* the last SetLevelFromString call: its argument, its result
                       \* and GetLevel() before and after it
    wpc,               \* the worker's position in the loop body
    e,                 \* the worker's loop variable
    err,               \* the worker's err variable
    wi,                \* index of the next chunk of the running printOut
    sink,              \* per sink: the calls it has received, in order
    exited,            \* exit status of the process, or NotExited
    hist,              \* history: per producer, its emit call and the threshold it read
    log,               \* history: every entry the worker received, with what
                       \* the worker did for it and whether the threshold was
                       \* above its level when it was received
    fails,             \* history: number of sink writes that failed
    heap,              \* the KV maps allocated by the KV helpers
    kvOp,              \* history: the last KV helper call, with the heap before
    po                 \* history: the last printOut call made on a writer of its
                       \* own, with what the writer received and the error returned

vars == <<Out, DisplayTimestamp, currLevel, pc, pend, blockCh, ret, wpc, e, err,
          wi, sink, exited, hist, log, fails, heap, kvOp, po>>

pipeVars == <<Out, DisplayTimestamp, currLevel, pc, pend, blockCh, ret, wpc, e,
              err, wi, sink, exited, hist, log, fails>>

kvVars == <<heap, kvOp>>

----------------------------------------------------------------------------
(* Bounds *)

\* sink writes that fail in one behaviour
MaxFails == 2

\* a failing Write is one of the first MaxFailPos writes of its printOut call
MaxFailPos == 2

\* maps on the heap of the KV helpers
MaxHeap == 3

\* the producers: goroutines that each make one emit call
Procs == {"p1", "p2"}

----------------------------------------------------------------------------
(* Levels *)

DebugLevel == 0
InfoLevel == 1
WarnLevel == 2
ErrorLevel == 3
FatalLevel == 4

Levels == DebugLevel..FatalLevel

\* Level is an int: SetLevel accepts values that are no defined level
LevelArgs == DebugLevel..(FatalLevel + 1)

\* func (l Level) String() string
Level_String(l) ==
    CASE l = DebugLevel -> <<68, 69, 66, 85, 71>>            \* "DEBUG"
      [] l = InfoLevel  -> <<73, 78, 70, 79>>                \* "INFO"
      [] l = WarnLevel  -> <<87, 65, 82, 78>>                \* "WARN"
      [] l = ErrorLevel -> <<69, 82, 82, 79, 82>>            \* "ERROR"
      [] l = FatalLevel -> <<70, 65, 84, 65, 76>>            \* "FATAL"
      [] OTHER -> <<117, 110, 107, 110, 111, 119, 110, 32,
                    108, 101, 118, 101, 108>>                \* "unknown level"

\* func GetLevel() Level
GetLevel == currLevel

----------------------------------------------------------------------------
(* Strings *)

\* the < of Go strings: bytewise lexicographic order
RECURSIVE StrLessFrom(_, _, _)
StrLessFrom(a, b, i) ==
    IF i > Len(b) THEN FALSE
    ELSE IF i > Len(a) THEN TRUE
    ELSE IF a[i] # b[i] THEN a[i] < b[i]
    ELSE StrLessFrom(a, b, i + 1)

StrLess(a, b) == StrLessFrom(a, b, 1)

\* the concatenation of the sequences ss[i], ss[i+1], ...
RECURSIVE FlattenFrom(_, _)
FlattenFrom(ss, i) == IF i > Len(ss) THEN <<>> ELSE ss[i] \o FlattenFrom(ss, i + 1)

Flatten(ss) == FlattenFrom(ss, 1)

\* strings.ToUpper on ASCII bytes
ToUpper(s) == [i \in DOMAIN s |-> IF s[i] >= 97 /\ s[i] <= 122 THEN s[i] - 32 ELSE s[i]]

\* the bytes of the ASCII strings of the model
Byte == 0..127

\* strings.Replace(vstr, `"`, `'`, -1)
ReplaceQuotes[s \in Seq(Byte)] == [i \in DOMAIN s |-> IF s[i] = 34 THEN 39 ELSE s[i]]

HexDigit(n) == IF n < 10 THEN 48 + n ELSE 87 + n

\* what strconv.QuoteToASCII writes for one ASCII byte
QuoteByte[c \in Byte] ==
    CASE c = 34 -> <<92, 34>>
      [] c = 92 -> <<92, 92>>
      [] c = 7  -> <<92, 97>>
      [] c = 8  -> <<92, 98>>
      [] c = 12 -> <<92, 102>>
      [] c = 10 -> <<92, 110>>
      [] c = 13 -> <<92, 114>>
      [] c = 9  -> <<92, 116>>
      [] c = 11 -> <<92, 118>>
      [] c >= 32 /\ c <= 126 -> <<c>>
      [] OTHER -> <<92, 120, HexDigit(c \div 16), HexDigit(c % 16)>>

\* strconv.QuoteToASCII
QuoteToASCII[s \in Seq(Byte)] ==
    <<34>> \o Flatten([i \in DOMAIN s |-> QuoteByte[s[i]]]) \o <<34>>

----------------------------------------------------------------------------
(* KV *)

\* a map with no keys: what make(KV, n) returns and what a nil map reads as
EmptyMap == [k \in {} |-> 0]

\* the map a KV reference denotes; reference 0 is nil
Deref(h, r) == IF r = 0 THEN EmptyMap ELSE h[r]

\* nkv[k] = v
Assign(m, k, v) == [x \in DOMAIN m \cup {k} |-> IF x = k THEN v ELSE m[x]]

\* for k, v := range src { dst[k] = v }, the keys taken in any order
RECURSIVE RangeAssign(_, _, _)
RangeAssign(dst, src, keys) ==
    IF keys = {} THEN dst
    ELSE LET k == CHOOSE x \in keys : TRUE
         IN RangeAssign(Assign(dst, k, src[k]), src, keys \ {k})

\* func (kv KV) Copy() KV: the heap after the call and the reference returned
Copy(h, kv) ==
    LET nkv == Len(h) + 1
        src == Deref(h, kv)
    IN [heap |-> Append(h, RangeAssign(EmptyMap, src, DOMAIN src)), ret |-> nkv]

\* a Merge that keeps the value a key already has
RECURSIVE MergeLoop_KeepFirst(_, _, _, _)
MergeLoop_KeepFirst(h, m, kvs, i) ==
    IF i > Len(kvs) THEN m
    ELSE LET src == Deref(h, kvs[i])
             nm == [k \in DOMAIN m \cup DOMAIN src |->
                        IF k \in DOMAIN m THEN m[k] ELSE src[k]]
         IN MergeLoop_KeepFirst(h, nm, kvs, i + 1)

\* the loop of Merge from index i on: for i := range kvs { for k, v := range kvs[i] { kv[k] = v } }
RECURSIVE MergeLoop(_, _, _, _)
MergeLoop(h, m, kvs, i) ==
    IF i > Len(kvs) THEN m
    ELSE LET src == Deref(h, kvs[i])
         IN MergeLoop(h, RangeAssign(m, src, DOMAIN src), kvs, i + 1)

\* func Merge(kvs ...KV) KV
Merge(h, kvs) ==
    [heap |-> Append(h, MergeLoop(h, EmptyMap, kvs, 1)), ret |-> Len(h) + 1]

\* a Set that writes into the receiver's own map when it has one
Set_InPlace(h, kv, k, v) ==
    IF kv = 0
    THEN [heap |-> Append(h, Assign(EmptyMap, k, v)), ret |-> Len(h) + 1]
    ELSE [heap |-> [h EXCEPT ![kv] = Assign(@, k, v)], ret |-> kv]

\* func (kv KV) Set(k string, v interface{}) KV
Set(h, kv, k, v) ==
    LET c == Copy(h, kv)
    IN [heap |-> [c.heap EXCEPT ![c.ret] = Assign(@, k, v)], ret |-> c.ret]

\* a Less that looks at the first byte of the keys only
kvL_Less_FirstByte(l, i, j) == l[i].K[1] < l[j].K[1]

\* func (l kvL) Less(i, j int) bool
kvL_Less(l, i, j) == StrLess(l[i].K, l[j].K)

\* func (l kvL) Swap(i, j int)
kvL_Swap(l, i, j) == [l EXCEPT ![i] = l[j], ![j] = l[i]]

\* sort.Sort on a short slice: insertion sort through Less and Swap
RECURSIVE SiftDown(_, _)
SiftDown(l, j) ==
    IF j > 1 /\ kvL_Less(l, j, j - 1) THEN SiftDown(kvL_Swap(l, j, j - 1), j - 1) ELSE l

RECURSIVE SortFrom(_, _)
SortFrom(l, i) == IF i > Len(l) THEN l ELSE SortFrom(SiftDown(l, i), i + 1)

sort_Sort(l) == SortFrom(l, 2)

\* func kvTo(kv KV) kvL; order is the order in which range yields the keys
kvTo(m, order) == sort_Sort([i \in DOMAIN order |-> [K |-> order[i], V |-> m[order[i]]]])

\* the orders in which range may yield the keys of a map
RangeOrders(m) ==
    {o \in [1..Cardinality(DOMAIN m) -> DOMAIN m] :
        \A i, j \in DOMAIN o : i # j => o[i] # o[j]}

\* func kvNormalize(kvs ...KV) kvL
kvNormalize(h, kvs, order) ==
    LET mg == Merge(h, kvs) IN kvTo(Deref(mg.heap, mg.ret), order)

----------------------------------------------------------------------------
(* Values, errors, entries *)

Nil == [kind |-> "nil", s |-> <<>>]

\* the error a failing Write returns
ErrWrite == [kind |-> "error", s |-> <<119, 114, 105, 116, 101, 32,
                                       102, 97, 105, 108, 101, 100>>]  \* "write failed"

Str(bytes) == [kind |-> "string", s |-> bytes]

\* fmt.Sprint of a string or of an error (its Error() text)
Sprint(v) == v.s

\* the nil blockCh of an entry
NoCh == "nil"

NoEntry == [level |-> DebugLevel, msg |-> <<>>, kv |-> <<>>, blockCh |-> NoCh]

----------------------------------------------------------------------------
(* Formatter *)

prefix == <<126, 32>>              \* "~ "
separator == <<32, 45, 45>>        \* " --"
separatorSpace == separator \o <<32>>
tsPrefix == <<91>>                 \* "["
tsSuffix == <<93, 32>>             \* "] "
space == <<32>>
equals == <<61>>
newline == <<10>>

\* time.Now().String(): some text without a newline
TimeNowString == <<84>>

\* the four byte slices printOut writes for one attribute
kvChunks(kve) ==
    <<space, kve.K, equals, QuoteToASCII[ReplaceQuotes[Sprint(kve.V)]]>>

\* a printOut that writes the separator whether or not the entry has attributes
printOut_AlwaysSeparator(en, displayTS) ==
    <<prefix>>
    \o (IF displayTS THEN <<tsPrefix, TimeNowString, tsSuffix>> ELSE <<>>)
    \o <<Level_String(en.level), separatorSpace, en.msg>>
    \o <<separator>> \o Flatten([i \in DOMAIN en.kv |-> kvChunks(en.kv[i])])
    \o <<newline>>

\* func (e entry) printOut(w io.Writer, displayTS bool) error:
\* the byte slices it hands to writeHelper, in order
printOut(en, displayTS) ==
    <<prefix>>
    \o (IF displayTS THEN <<tsPrefix, TimeNowString, tsSuffix>> ELSE <<>>)
    \o <<Level_String(en.level), separatorSpace, en.msg>>
    \o (IF Len(en.kv) > 0
        THEN <<separator>> \o Flatten([i \in DOMAIN en.kv |-> kvChunks(en.kv[i])])
        ELSE <<>>)
    \o <<newline>>

\* func writeHelper(b []byte, w io.Writer, lastErr error) error, for lastErr == nil:
\* the sinks after w.Write(b) and the error returned; ok says whether the Write succeeds
writeHelper(s, b, w, ok) ==
    IF ok THEN [sink |-> [s EXCEPT ![w] = Append(@, [op |-> "Write", b |-> b])], err |-> Nil]
    ELSE [sink |-> s, err |-> ErrWrite]

----------------------------------------------------------------------------
(* Sinks *)

defaultOut == "stdout"

SinkIds == {"stdout", "out"}

\* os.Stdout: its Sync and Flush do not have the signatures of syncer and flusher
Stdout == [id |-> defaultOut, sync |-> FALSE, flush |-> FALSE]

\* the writers Out may be set to before logging starts
OutChoices ==
    {Stdout, [id |-> "out", sync |-> FALSE, flush |-> FALSE],
     [id |-> "out", sync |-> FALSE, flush |-> TRUE],
     [id |-> "out", sync |-> TRUE, flush |-> TRUE]}

\* a type switch that tries flusher before syncer
Hook_FlushFirst(out) == IF out.flush THEN "Flush" ELSE IF out.sync THEN "Sync" ELSE "none"

\* the type switch on Out.(syncer) / Out.(flusher)
Hook(out) == IF out.sync THEN "Sync" ELSE IF out.flush THEN "Flush" ELSE "none"

----------------------------------------------------------------------------
(* Inputs *)

\* the message each producer logs: "foo", "bar"
MsgsOf(p) == IF p = "p1" THEN {<<102, 111, 111>>} ELSE {<<98, 97, 114>>}

\* KV{"foo": "a", "bar": "a"}
kvFooBar == [k \in {<<102, 111, 111>>, <<98, 97, 114>>} |-> Str(<<97>>)]
\* KV{"a": "b"}
kvAB == [k \in {<<97>>} |-> Str(<<98>>)]
\* KV{"a": `say "x"`}
kvAQ == [k \in {<<97>>} |-> Str(<<34, 120, 34>>)]

\* argument lists of an emit call: the maps they hold and the references passed;
\* p1 passes no KV, p2 passes (KV{"a": `"x"`}, nil, KV{"a": "b"}) or KV{"a": `"x"`}
KVArgsOf(p) ==
    IF p = "p1" THEN {[heap |-> <<>>, refs |-> <<>>]}
    ELSE {[heap |-> <<kvAQ, kvAB>>, refs |-> <<1, 0, 2>>]}

\* the KV literals of the callers of the KV helpers:
\* KV{"b": "x", "a": "x"}, KV{"a": "y", "ab": "x"}, KV{}
KVLits ==
    { [k \in {<<98>>, <<97>>} |-> Str(<<120>>)],
      [k \in {<<97>>, <<97, 98>>} |-> IF k = <<97>> THEN Str(<<121>>) ELSE Str(<<120>>)],
      EmptyMap }

\* the keys and the values passed to Set: "a", "c" and "z"
SetKeys == {<<97>>, <<99>>}
SetVals == {Str(<<122>>)}

\* arguments of SetLevelFromString: "warn", "Error", "FATAL", "BOGUS", "info ", ""
LevelStrings ==
    {<<119, 97, 114, 110>>, <<69, 114, 114, 111, 114>>, <<70, 65, 84, 65, 76>>,
     <<66, 79, 71, 85, 83>>, <<105, 110, 102, 111, 32>>, <<>>}

----------------------------------------------------------------------------
(* State after package initialisation *)

NotExited == <<>>

\* no SetLevelFromString call made yet
NoRet == [called |-> FALSE, arg |-> <<>>, err |-> Nil, pre |-> InfoLevel,
          post |-> InfoLevel]

\* the producer has not called yet
NoCall == [called |-> FALSE, l |-> DebugLevel, t |-> DebugLevel]

\* no KV helper called yet
NoKvOp == [op |-> "none", recv |-> 0, args |-> <<>>, k |-> <<>>, v |-> Nil,
           ret |-> 0, res |-> <<>>, pre |-> <<>>]

\* no printOut call made on a writer of its own yet
NoPo == [called |-> FALSE, e |-> NoEntry, ts |-> FALSE, failAt |-> 0, buf |-> <<>>,
         err |-> Nil]

Init ==
    /\ Out = Stdout
    /\ DisplayTimestamp = FALSE
    /\ currLevel = InfoLevel
    /\ pc = [p \in Procs |-> "idle"]
    /\ pend = [p \in Procs |-> NoEntry]
    /\ blockCh = [p \in Procs |-> "nil"]
    /\ ret = NoRet
    /\ wpc = "recv"
    /\ e = NoEntry
    /\ err = Nil
    /\ wi = 1
    /\ sink = [w \in SinkIds |-> <<>>]
    /\ exited = NotExited
    /\ hist = [p \in Procs |-> NoCall]
    /\ log = <<>>
    /\ fails = 0
    /\ heap = <<>>
    /\ kvOp = NoKvOp
    /\ po = NoPo

Running == exited = NotExited

----------------------------------------------------------------------------
(* Configuration, done before any logging *)

NoLoggingYet == \A p \in Procs : ~hist[p].called

\* Out = o
SetOut(o) ==
    /\ Running /\ NoLoggingYet
    /\ Out' = o
    /\ UNCHANGED <<DisplayTimestamp, currLevel, pc, pend, blockCh, ret, wpc, e, err,
                   wi, sink, exited, hist, log, fails, heap, kvOp, po>>

\* DisplayTimestamp = b
SetDisplayTimestamp(b) ==
    /\ Running /\ NoLoggingYet
    /\ DisplayTimestamp' = b
    /\ UNCHANGED <<Out, currLevel, pc, pend, blockCh, ret, wpc, e, err,
                   wi, sink, exited, hist, log, fails, heap, kvOp, po>>

----------------------------------------------------------------------------
(* Level gate *)

\* func SetLevel(l Level)
SetLevel(l) ==
    /\ Running
    /\ currLevel' = l
    /\ UNCHANGED <<Out, DisplayTimestamp, pc, pend, blockCh, ret, wpc, e, err, wi,
                   sink, exited, hist, log, fails, heap, kvOp, po>>

\* a switch whose default case falls back to the initial level
LevelFromString_ResetOnError(ls, cur) ==
    LET u == ToUpper(ls)
    IN CASE u = <<68, 69, 66, 85, 71>> -> [level |-> DebugLevel, err |-> Nil]
         [] u = <<73, 78, 70, 79>>     -> [level |-> InfoLevel, err |-> Nil]
         [] u = <<87, 65, 82, 78>>     -> [level |-> WarnLevel, err |-> Nil]
         [] u = <<69, 82, 82, 79, 82>> -> [level |-> ErrorLevel, err |-> Nil]
         [] u = <<70, 65, 84, 65, 76>> -> [level |-> FatalLevel, err |-> Nil]
         [] OTHER -> [level |-> InfoLevel,
                      err |-> [kind |-> "error",
                               s |-> <<117, 110, 107, 110, 111, 119, 110, 32,
                                       108, 111, 103, 32, 108, 101, 118, 101,
                                       108, 32>> \o QuoteToASCII[ls]]]

\* the switch of SetLevelFromString: the level set and the error returned
LevelFromString(ls, cur) ==
    LET u == ToUpper(ls)
    IN CASE u = <<68, 69, 66, 85, 71>> -> [level |-> DebugLevel, err |-> Nil]
         [] u = <<73, 78, 70, 79>>     -> [level |-> InfoLevel, err |-> Nil]
         [] u = <<87, 65, 82, 78>>     -> [level |-> WarnLevel, err |-> Nil]
         [] u = <<69, 82, 82, 79, 82>> -> [level |-> ErrorLevel, err |-> Nil]
         [] u = <<70, 65, 84, 65, 76>> -> [level |-> FatalLevel, err |-> Nil]
         [] OTHER -> [level |-> cur,
                      err |-> [kind |-> "error",
                               s |-> <<117, 110, 107, 110, 111, 119, 110, 32,
                                       108, 111, 103, 32, 108, 101, 118, 101,
                                       108, 32>> \o QuoteToASCII[ls]]]

\* func SetLevelFromString(ls string) error
SetLevelFromString(ls) ==
    /\ Running
    /\ LET r == LevelFromString(ls, currLevel)
       IN /\ currLevel' = r.level
          /\ ret' = [called |-> TRUE, arg |-> ls, err |-> r.err,
                      pre |-> GetLevel, post |-> r.level]
    /\ UNCHANGED <<Out, DisplayTimestamp, pc, pend, blockCh, wpc, e, err, wi,
                   sink, exited, hist, log, fails, heap, kvOp, po>>

----------------------------------------------------------------------------
(* Emit functions *)

CanCall(p) == Running /\ pc[p] = "idle"

\* a gate that lets only levels above the threshold pass
GatePasses_Strict(l, threshold) == l > threshold

\* a gate that lets a FATAL entry pass whatever the threshold
GatePasses_FatalAlways(l, threshold) == l >= threshold \/ l = FatalLevel

\* if l >= GetLevel()
GatePasses(l, threshold) == l >= threshold

\* a logEntry after which every caller waits for a signal
AfterLogEntry_AlwaysWait(bch) == "wait"

\* where a producer goes when logEntry returns: back to its caller, or, in
\* Fatal, to the receive on blockCh
AfterLogEntry(bch) == IF bch = NoCh THEN "done" ELSE "wait"

\* an entryCh with a buffer: the send returns at once
AtSend_Buffered(bch) == AfterLogEntry(bch)

\* entryCh <- entry{...} on the unbuffered entryCh: the producer stays at the
\* send until the worker receives
AtSend(bch) == "send"

\* func logEntry(l Level, msg string, kvs []KV, blockCh chan struct{}),
\* up to the send on entryCh
logEntry(p, l, msg, kvs, bch) ==
    /\ CanCall(p)
    /\ IF GatePasses(l, GetLevel)
       THEN \E order \in RangeOrders(MergeLoop(kvs.heap, EmptyMap, kvs.refs, 1)) :
              /\ pend' = [pend EXCEPT ![p] =
                            [level |-> l, msg |-> msg,
                             kv |-> kvNormalize(kvs.heap, kvs.refs, order),
                             blockCh |-> bch]]
              /\ pc' = [pc EXCEPT ![p] = AtSend(bch)]
       ELSE /\ pc' = [pc EXCEPT ![p] = AfterLogEntry(bch)]
            /\ pend' = pend
    /\ hist' = [hist EXCEPT ![p] = [called |-> TRUE, l |-> l, t |-> GetLevel]]
    /\ UNCHANGED <<Out, DisplayTimestamp, currLevel, ret, wpc, e, err, wi, sink,
                   exited, log, fails, heap, kvOp, po>>

\* func Debug(msg string, kv ...KV)
Debug(p, msg, kvs) == logEntry(p, DebugLevel, msg, kvs, NoCh) /\ UNCHANGED blockCh

\* func Info(msg string, kv ...KV)
Info(p, msg, kvs) == logEntry(p, InfoLevel, msg, kvs, NoCh) /\ UNCHANGED blockCh

\* func Warn(msg string, kv ...KV)
Warn(p, msg, kvs) == logEntry(p, WarnLevel, msg, kvs, NoCh) /\ UNCHANGED blockCh

\* func Error(msg string, kv ...KV)
Error(p, msg, kvs) == logEntry(p, ErrorLevel, msg, kvs, NoCh) /\ UNCHANGED blockCh

\* func Fatal(msg string, kv ...KV), up to the receive on blockCh
Fatal(p, msg, kvs) ==
    /\ blockCh' = [blockCh EXCEPT ![p] = "open"]
    /\ logEntry(p, FatalLevel, msg, kvs, p)

\* a Fatal that does not wait for the signal
CanExit_NoWait(p) == pc[p] = "wait"

\* <-blockCh returns once the channel is closed
CanExit(p) == pc[p] = "wait" /\ blockCh[p] = "closed"

\* the end of Fatal: <-blockCh; os.Exit(1)
FatalExit(p) ==
    /\ Running
    /\ CanExit(p)
    /\ exited' = <<1>>
    /\ UNCHANGED <<Out, DisplayTimestamp, currLevel, pc, pend, blockCh, ret, wpc, e,
                   err, wi, sink, hist, log, fails, heap, kvOp, po>>

----------------------------------------------------------------------------
(* The worker goroutine started by init() *)

\* a worker that receives the next entry while printOut is still running
RecvReady_Busy == wpc \in {"recv", "printOut"}

\* the worker is at the head of: for e := range entryCh
RecvReady == wpc = "recv"

\* history: one more event of the entry the worker is processing
Logged(ev) == [log EXCEPT ![Len(log)].ev = Append(@, ev)]

\* a worker that takes an entry only if it still passes the gate
Recv_GateAgain(p) ==
    /\ GatePasses(pend[p].level, GetLevel)
    /\ Running
    /\ RecvReady
    /\ pc[p] = "send"
    /\ e' = pend[p]
    /\ err' = Nil
    /\ wpc' = "printOut"
    /\ wi' = 1
    /\ pc' = [pc EXCEPT ![p] = AfterLogEntry(pend[p].blockCh)]
    /\ pend' = [pend EXCEPT ![p] = NoEntry]
    /\ log' = Append(log, [e |-> pend[p], from |-> p, ev |-> <<>>, fin |-> FALSE,
                           below |-> pend[p].level < GetLevel])
    /\ UNCHANGED <<Out, DisplayTimestamp, currLevel, blockCh, ret, sink, exited,
                   hist, fails, heap, kvOp, po>>

\* the send on entryCh meets the worker's receive: e := <-entryCh
Recv(p) ==
    /\ Running
    /\ RecvReady
    /\ pc[p] = "send"
    /\ e' = pend[p]
    /\ err' = Nil
    /\ wpc' = "printOut"
    /\ wi' = 1
    /\ pc' = [pc EXCEPT ![p] = AfterLogEntry(pend[p].blockCh)]
    /\ pend' = [pend EXCEPT ![p] = NoEntry]
    /\ log' = Append(log, [e |-> pend[p], from |-> p, ev |-> <<>>, fin |-> FALSE,
                           below |-> pend[p].level < GetLevel])
    /\ UNCHANGED <<Out, DisplayTimestamp, currLevel, blockCh, ret, sink, exited,
                   hist, fails, heap, kvOp, po>>

\* a worker that reports a failed write whatever Out is
NeedFallback_Always(er, out) == er # Nil

\* if err != nil && Out != defaultOut
NeedFallback(er, out) == er # Nil /\ out.id # defaultOut

\* erre := entry{level: ErrorLevel, msg: "Could not write to error Out", kv: kvTo(KV{"err": err})}
erre(er) ==
    [level |-> ErrorLevel,
     msg |-> <<67, 111, 117, 108, 100, 32, 110, 111, 116, 32, 119, 114, 105, 116,
               101, 32, 116, 111, 32, 101, 114, 114, 111, 114, 32, 79, 117, 116>>,
     kv |-> kvTo([k \in {<<101, 114, 114>>} |-> er], <<<<101, 114, 114>>>>),
     blockCh |-> NoCh]

\* the three printOut calls of the loop body, "printOut" (e on Out), "erre" (erre
\* on defaultOut), "fallback" (e on defaultOut): the sink and the entry of each
StageSink(st, out) == IF st = "printOut" THEN out.id ELSE defaultOut

\* a loop body that prints the entry first and the report of the failure second
StageEntry_ReportLast(st, en, er) == IF st = "fallback" THEN erre(er) ELSE en

StageEntry(st, en, er) == IF st = "erre" THEN erre(er) ELSE en

\* a loop body that goes on to the next entry right after the fallback writes
NextStage_ContinueAfterFallback(st, er, en, out) ==
    IF st = "printOut" /\ NeedFallback(er, out) THEN "erre"
    ELSE IF st = "erre" THEN "fallback"
    ELSE IF st = "fallback" THEN "recv"
    ELSE IF en.level = FatalLevel THEN "hook"
    ELSE "close"

\* a loop body that closes blockCh right after the writes, before the Sync or Flush
NextStage_NoHook(st, er, en, out) ==
    IF st = "printOut" /\ NeedFallback(er, out) THEN "erre"
    ELSE IF st = "erre" THEN "fallback"
    ELSE "close"

\* a worker that returns from its goroutine when a printOut call fails
NextStage_StopOnError(st, er, en, out) ==
    IF er # Nil THEN "stopped"
    ELSE IF st = "erre" THEN "fallback"
    ELSE IF en.level = FatalLevel THEN "hook"
    ELSE "close"

\* where the loop body goes when the printOut call st has returned er
NextStage(st, er, en, out) ==
    IF st = "printOut" /\ NeedFallback(er, out) THEN "erre"
    ELSE IF st = "erre" THEN "fallback"
    ELSE IF en.level = FatalLevel THEN "hook"
    ELSE "close"

\* one writeHelper call of the running printOut; after a failed Write the
\* remaining writeHelper calls of that printOut do nothing and it returns
Write(ok) ==
    /\ Running
    /\ wpc \in {"printOut", "erre", "fallback"}
    /\ ~ok => fails < MaxFails /\ wi <= MaxFailPos
    /\ \E chunks \in {printOut(StageEntry(wpc, e, err), DisplayTimestamp)} :
       LET w == StageSink(wpc, Out)
           r == writeHelper(sink, chunks[wi], w, ok)
           returns == r.err # Nil \/ wi = Len(chunks)
       IN /\ sink' = r.sink
          /\ err' = IF wpc = "printOut" THEN r.err ELSE err
          /\ wpc' = IF returns THEN NextStage(wpc, r.err, e, Out) ELSE wpc
          /\ wi' = IF returns THEN 1 ELSE wi + 1
          /\ log' = Logged([op |-> IF ok THEN "Write" ELSE "WriteErr", w |-> w,
                            b |-> chunks[wi]])
    /\ fails' = IF ok THEN fails ELSE fails + 1
    /\ UNCHANGED <<Out, DisplayTimestamp, currLevel, pc, pend, blockCh, ret, e,
                   exited, hist, heap, kvOp, po>>

WriteOk == Write(TRUE)

WriteFail == Write(FALSE)

\* if e.level == FatalLevel { Sync or Flush Out, when it has one }
SyncOrFlush ==
    /\ Running
    /\ wpc = "hook"
    /\ LET h == Hook(Out)
       IN IF h = "none"
          THEN UNCHANGED <<sink, log>>
          ELSE /\ sink' = [sink EXCEPT ![Out.id] = Append(@, [op |-> h, b |-> <<>>])]
               /\ log' = Logged([op |-> h, w |-> Out.id, b |-> <<>>])
    /\ wpc' = "close"
    /\ UNCHANGED <<Out, DisplayTimestamp, currLevel, pc, pend, blockCh, ret, e, err,
                   wi, exited, hist, fails, heap, kvOp, po>>

\* if e.blockCh != nil { close(e.blockCh) }, and back to the head of the loop
Close ==
    /\ Running
    /\ wpc = "close"
    /\ IF e.blockCh # NoCh
       THEN /\ blockCh' = [blockCh EXCEPT ![e.blockCh] = "closed"]
            /\ log' = [Logged([op |-> "close", w |-> e.blockCh, b |-> <<>>])
                         EXCEPT ![Len(log)].fin = TRUE]
       ELSE /\ blockCh' = blockCh
            /\ log' = [log EXCEPT ![Len(log)].fin = TRUE]
    /\ wpc' = "recv"
    /\ UNCHANGED <<Out, DisplayTimestamp, currLevel, pc, pend, ret, e, err, wi,
                   sink, exited, hist, fails, heap, kvOp, po>>

----------------------------------------------------------------------------
(* The logging pipeline *)

Emit(p) ==
    \E msg \in MsgsOf(p), kvs \in KVArgsOf(p) :
        \/ Debug(p, msg, kvs)
        \/ Info(p, msg, kvs)
        \/ Warn(p, msg, kvs)
        \/ Error(p, msg, kvs)
        \/ Fatal(p, msg, kvs)

\* producers, the worker and a sink that may fail, at the initial threshold
Next ==
    \/ \E o \in OutChoices : SetOut(o)
    \/ \E p \in Procs : Emit(p)
    \/ \E p \in Procs : FatalExit(p)
    \/ \E p \in Procs : Recv(p)
    \/ WriteOk
    \/ WriteFail
    \/ SyncOrFlush
    \/ Close

Spec == Init /\ [][Next]_vars

\* the scheduler runs every goroutine that can take a step: a Write call returns,
\* the worker goes on in its loop body, a blocked send is received once the
\* worker is back at the receive, and a Fatal caller goes on once its blockCh
\* is closed
Fairness ==
    /\ WF_vars(WriteOk \/ WriteFail)
    /\ WF_vars(SyncOrFlush)
    /\ WF_vars(Close)
    /\ \A p \in Procs : WF_vars(Recv(p))
    /\ \A p \in Procs : WF_vars(FatalExit(p))

SpecFair == Init /\ [][Next]_vars /\ Fairness

\* producers and the worker while the threshold changes, the sinks never failing
NextGate ==
    \/ \E b \in BOOLEAN : SetDisplayTimestamp(b)
    \/ \E l \in LevelArgs : SetLevel(l)
    \/ \E p \in Procs : Emit(p)
    \/ \E p \in Procs : FatalExit(p)
    \/ \E p \in Procs : Recv(p)
    \/ WriteOk
    \/ SyncOrFlush
    \/ Close

SpecGate == Init /\ [][NextGate]_vars

\* the two setters of the threshold
NextLevel ==
    \/ \E l \in LevelArgs : SetLevel(l)
    \/ \E ls \in LevelStrings : SetLevelFromString(ls)

SpecLevel == Init /\ [][NextLevel]_vars

----------------------------------------------------------------------------
(* The KV helpers, called on maps of a heap *)

Refs == 0..Len(heap)

HeapRoom == Len(heap) < MaxHeap

\* a caller builds a map: KV{...}
NewKV(m) ==
    /\ HeapRoom
    /\ heap' = Append(heap, m)
    /\ kvOp' = [NoKvOp EXCEPT !.op = "KV", !.ret = Len(heap) + 1, !.pre = heap]
    /\ UNCHANGED <<pipeVars, po>>

\* nkv := kv.Copy()
CallCopy(kv) ==
    /\ HeapRoom
    /\ LET c == Copy(heap, kv)
       IN /\ heap' = c.heap
          /\ kvOp' = [NoKvOp EXCEPT !.op = "Copy", !.recv = kv, !.ret = c.ret,
                                    !.pre = heap]
    /\ UNCHANGED <<pipeVars, po>>

\* nkv := kv.Set(k, v)
CallSet(kv, k, v) ==
    /\ HeapRoom
    /\ LET c == Set(heap, kv, k, v)
       IN /\ heap' = c.heap
          /\ kvOp' = [NoKvOp EXCEPT !.op = "Set", !.recv = kv, !.k = k, !.v = v,
                                    !.ret = c.ret, !.pre = heap]
    /\ UNCHANGED <<pipeVars, po>>

\* kv := Merge(kvs...)
CallMerge(kvs) ==
    /\ HeapRoom
    /\ LET c == Merge(heap, kvs)
       IN /\ heap' = c.heap
          /\ kvOp' = [NoKvOp EXCEPT !.op = "Merge", !.args = kvs, !.ret = c.ret,
                                    !.pre = heap]
    /\ UNCHANGED <<pipeVars, po>>

\* kvl := kvNormalize(kvs...), range yielding the merged keys in some order
CallKvNormalize(kvs) ==
    /\ HeapRoom
    /\ LET c == Merge(heap, kvs)
       IN /\ heap' = c.heap
          /\ \E order \in RangeOrders(Deref(c.heap, c.ret)) :
                kvOp' = [NoKvOp EXCEPT !.op = "kvNormalize", !.args = kvs,
                                       !.ret = c.ret, !.pre = heap,
                                       !.res = kvNormalize(heap, kvs, order)]
    /\ UNCHANGED <<pipeVars, po>>

\* the argument lists of Merge and kvNormalize: up to three references
RefLists == {<<>>} \cup {<<a>> : a \in Refs} \cup {<<a, b>> : a, b \in Refs}
            \cup {<<a, b, c>> : a, b, c \in Refs}

NextKV ==
    \/ \E m \in KVLits : NewKV(m)
    \/ \E kv \in Refs : CallCopy(kv)
    \/ \E kv \in Refs, k \in SetKeys, v \in SetVals : CallSet(kv, k, v)
    \/ \E kvs \in RefLists : CallMerge(kvs)
    \/ \E kvs \in RefLists : CallKvNormalize(kvs)

SpecKV == Init /\ [][NextKV]_vars

----------------------------------------------------------------------------
(* printOut called on a writer of the caller's own, as TestEntryPrintOut does *)

\* a writeHelper that calls Write whatever lastErr is
writeHelperFrom_NoCheck(s, b, w, lastErr, ok) == writeHelper(s, b, w, ok)

\* func writeHelper(b []byte, w io.Writer, lastErr error) error, for any lastErr
writeHelperFrom(s, b, w, lastErr, ok) ==
    IF lastErr # Nil THEN [sink |-> s, err |-> lastErr] ELSE writeHelper(s, b, w, ok)

\* the writeHelper calls of printOut from slice i on, err threaded through them;
\* the writer fails the Write of slice failAt, if that Write is made
RECURSIVE printOutFrom(_, _, _, _, _, _)
printOutFrom(s, chunks, w, i, lastErr, failAt) ==
    IF i > Len(chunks) THEN [sink |-> s, err |-> lastErr]
    ELSE LET r == writeHelperFrom(s, chunks[i], w, lastErr, i # failAt)
         IN printOutFrom(r.sink, chunks, w, i + 1, r.err, failAt)

\* e.printOut(w, displayTS) as one call, on an empty writer w
printOutOn(en, displayTS, failAt) ==
    LET r == printOutFrom([w \in {"buf"} |-> <<>>], printOut(en, displayTS), "buf",
                          1, Nil, failAt)
    IN [buf |-> [j \in DOMAIN r.sink["buf"] |-> r.sink["buf"][j].b], err |-> r.err]

\* the messages of TestLLog: "bar", "baz", "buz"
PrintMsgs == {<<98, 97, 114>>, <<98, 97, 122>>, <<98, 117, 122>>}

\* the attributes of the entries printed: none, KV{}, KV{"foo": "a", "bar": "a"},
\* KV{"a": "b"}, KV{"a": `"x"`}
PrintKVs == {EmptyMap, kvFooBar, kvAB, kvAQ}

\* the entries printed
PrintEntries ==
    {[level |-> l, msg |-> m, kv |-> kvTo(kv, order), blockCh |-> NoCh] :
        l \in Levels, m \in PrintMsgs,
        <<kv, order>> \in {<<k, o>> \in UNION {{k2} \X RangeOrders(k2) : k2 \in PrintKVs} : TRUE}}

\* err := e.printOut(w, displayTS), the one call of a run, the writer failing
\* the Write of slice failAt (failAt = 0: no Write fails)
CallPrintOut(en, displayTS, failAt) ==
    /\ ~po.called
    /\ LET r == printOutOn(en, displayTS, failAt)
       IN po' = [called |-> TRUE, e |-> en, ts |-> displayTS, failAt |-> failAt,
                 buf |-> r.buf, err |-> r.err]
    /\ UNCHANGED <<pipeVars, kvVars>>

NextPrint ==
    \E en \in PrintEntries, ts \in BOOLEAN :
        \E failAt \in 0..Len(printOut(en, ts)) : CallPrintOut(en, ts, failAt)

SpecPrint == Init /\ [][NextPrint]_vars

----------------------------------------------------------------------------
(* What the sinks hold and what the worker did, read back from sink and log *)

\* the byte slices a sink received through Write, in order
SinkWrites(w) ==
    LET ws == SelectSeq(sink[w], LAMBDA c : c.op = "Write")
    IN [i \in DOMAIN ws |-> ws[i].b]

\* the worker has left the printOut of log[i].e on Out behind it
Printed(i) == i < Len(log) \/ wpc # "printOut"

\* some Write on sink w failed while the worker processed log[i]
FailedOn(i, w) == \E j \in DOMAIN log[i].ev : log[i].ev[j].op = "WriteErr" /\ log[i].ev[j].w = w

OutNeverFailed == \A i \in DOMAIN log : ~FailedOn(i, Out.id)

\* the records of log that come from producer p
RecordsOf(p) == {i \in DOMAIN log : log[i].from = p}

\* producer p made its call and the call passed the gate
Accepted(p) == hist[p].called /\ hist[p].l >= hist[p].t

----------------------------------------------------------------------------
(* C1 *)

\* the byte slices Out must hold for log[i] when no Write failed
C1_Expected(i) ==
    LET line == printOut(log[i].e, DisplayTimestamp)
    IN IF Printed(i) THEN line ELSE SubSeq(line, 1, wi - 1)

\* C1: while no Write on Out fails, Out holds, for the entries in the order the
\* worker received them, the complete line of each (for the entry being printed,
\* the slices written so far), with nothing in between; every call that passed
\* the gate is either still blocked at the send or was received exactly once,
\* and every entry received is the entry of such a call.
C1_OneLinePerEntryInOrder ==
    /\ OutNeverFailed =>
          SinkWrites(Out.id) = Flatten([i \in DOMAIN log |-> C1_Expected(i)])
    /\ \A p \in Procs :
          /\ Accepted(p) => Cardinality(RecordsOf(p)) = IF pc[p] = "send" THEN 0 ELSE 1
          /\ ~Accepted(p) => RecordsOf(p) = {}
    /\ \A i \in DOMAIN log :
          /\ log[i].e.level = hist[log[i].from].l
          /\ log[i].e.msg \in MsgsOf(log[i].from)

\* two producers' entries were received while the other was still being handled,
\* and both lines are complete on a sink of the caller's
C1_Witness ==
    /\ Len(log) = 2
    /\ log[1].from # log[2].from
    /\ log[2].fin
    /\ Out.id # defaultOut
    /\ OutNeverFailed
    /\ Len(SinkWrites(Out.id)) > 10

----------------------------------------------------------------------------
(* C2 *)

\* the number of byte slices of ss that end a line
RECURSIVE C2_Newlines(_)
C2_Newlines(ss) ==
    IF ss = <<>> THEN 0
    ELSE (IF Head(ss) = <<10>> THEN 1 ELSE 0) + C2_Newlines(Tail(ss))

\* the entry of producer p was submitted: it is at the send, or was received
C2_Submitted(p) == pc[p] = "send" \/ RecordsOf(p) # {}

\* C2: for every emit call at level L that read threshold T, an entry is
\* submitted if and only if L >= T, a submitted entry is received at most once,
\* and the lines on Out are exactly one per entry whose printOut has returned:
\* a call with L < T leaves no line, a call with L >= T exactly one.
C2_GateIffAtOrAbove ==
    /\ \A p \in Procs :
          hist[p].called =>
             /\ C2_Submitted(p) <=> hist[p].l >= hist[p].t
             /\ Cardinality(RecordsOf(p)) <= 1
             /\ \A i \in RecordsOf(p) : log[i].e.level = hist[p].l
    /\ C2_Newlines(SinkWrites(Out.id)) = Cardinality({i \in DOMAIN log : Printed(i)})
    /\ Len(log) = Cardinality({p \in Procs : RecordsOf(p) # {}})

\* at threshold WARN one producer called Info and left no line, the other called
\* Error and its line is the only one on Out
C2_Witness ==
    \E p, q \in Procs :
        /\ hist[p].called /\ hist[p].t = WarnLevel /\ hist[p].l = InfoLevel
        /\ pc[p] = "done"
        /\ hist[q].called /\ hist[q].t = WarnLevel /\ hist[q].l = ErrorLevel
        /\ Len(log) = 1 /\ log[1].from = q /\ log[1].fin
        /\ C2_Newlines(SinkWrites(Out.id)) = 1

----------------------------------------------------------------------------
(* The events a log record must hold, stated from the loop body's contract *)

\* how many of the slices of line the events ev[pos], ev[pos+1], ... write to w,
\* in order, counting from k already matched
RECURSIVE OkRun(_, _, _, _, _)
OkRun(ev, pos, w, line, k) ==
    IF /\ k < Len(line)
       /\ pos + k <= Len(ev)
       /\ ev[pos + k] = [op |-> "Write", w |-> w, b |-> line[k + 1]]
    THEN OkRun(ev, pos, w, line, k + 1)
    ELSE k

\* the events from ev[pos] on read as one printOut call of line on w: either all
\* slices written, or the first k written and then the failed Write of slice k+1
Attempt(ev, pos, w, line) ==
    LET k == OkRun(ev, pos, w, line, 0)
        failed == /\ k < Len(line)
                  /\ pos + k <= Len(ev)
                  /\ ev[pos + k] = [op |-> "WriteErr", w |-> w, b |-> line[k + 1]]
    IN [ok |-> k = Len(line), failed |-> failed,
        n |-> IF failed THEN k + 1 ELSE k]

\* the entry the worker reports a failed write with
SyntheticEntry ==
    [level |-> ErrorLevel,
     msg |-> <<67, 111, 117, 108, 100, 32, 110, 111, 116, 32, 119, 114, 105, 116,
               101, 32, 116, 111, 32, 101, 114, 114, 111, 114, 32, 79, 117, 116>>,
     kv |-> <<[K |-> <<101, 114, 114>>, V |-> ErrWrite]>>,
     blockCh |-> NoCh]

\* the durability hook the worker owes a FATAL entry on Out
HookOwed(en) ==
    IF en.level # FatalLevel THEN "none"
    ELSE IF Out.sync THEN "Sync"
    ELSE IF Out.flush THEN "Flush"
    ELSE "none"

\* the record's events are those of a whole loop body: the printOut on Out; if it
\* failed and Out is not the default sink, the two printOut calls on the default
\* sink; for a FATAL entry the hook of Out; last, the close of the entry's blockCh
Handled(rec) ==
    LET ev == rec.ev
        line == printOut(rec.e, DisplayTimestamp)
        a1 == Attempt(ev, 1, Out.id, line)
        fb == a1.failed /\ Out.id # defaultOut
        a2 == Attempt(ev, 1 + a1.n, defaultOut, printOut(SyntheticEntry, DisplayTimestamp))
        a3 == Attempt(ev, 1 + a1.n + a2.n, defaultOut, line)
        n3 == a1.n + (IF fb THEN a2.n + a3.n ELSE 0)
        hk == HookOwed(rec.e)
        n4 == n3 + (IF hk = "none" THEN 0 ELSE 1)
        n5 == n4 + (IF rec.e.blockCh = NoCh THEN 0 ELSE 1)
    IN /\ a1.ok \/ a1.failed
       /\ fb => (a2.ok \/ a2.failed) /\ (a3.ok \/ a3.failed)
       /\ hk # "none" => n4 <= Len(ev) /\ ev[n4] = [op |-> hk, w |-> Out.id, b |-> <<>>]
       /\ rec.e.blockCh # NoCh =>
             n5 <= Len(ev) /\ ev[n5] = [op |-> "close", w |-> rec.e.blockCh, b |-> <<>>]
       /\ Len(ev) = n5

----------------------------------------------------------------------------
(* C3 *)

\* C3: the process has exited only with status 1 and only through a Fatal caller
\* whose blockCh is closed; and a blockCh is closed only when the worker has done
\* everything for that caller's FATAL entry: the printOut on Out, the two
\* fallback printOut calls if that failed on a sink other than the default one,
\* the Sync or Flush of Out, all before the close.
C3_ExitAfterEntryHandled ==
    /\ exited # NotExited =>
          /\ exited = <<1>>
          /\ \E p \in Procs : pc[p] = "wait" /\ blockCh[p] = "closed"
    /\ \A p \in Procs :
          blockCh[p] = "closed" =>
             \E i \in RecordsOf(p) :
                 /\ log[i].e.level = FatalLevel
                 /\ log[i].e.blockCh = p
                 /\ Handled(log[i])
                 /\ log[i].ev[Len(log[i].ev)].op = "close"

\* the process exited after a FATAL entry whose write failed on Out and again on
\* the default sink, and whose sink was synced
C3_Witness ==
    /\ exited = <<1>>
    /\ \E i \in DOMAIN log :
          /\ log[i].e.level = FatalLevel
          /\ FailedOn(i, Out.id)
          /\ Out.id # defaultOut
          /\ FailedOn(i, defaultOut)
          /\ \E j \in DOMAIN log[i].ev : log[i].ev[j].op = "Sync"

----------------------------------------------------------------------------
(* C4 *)

\* the worker has received a FATAL entry of producer p
C4_FatalReceived(p) == \E i \in RecordsOf(p) : log[i].e.level = FatalLevel

\* C4: under fair scheduling, once the worker has received the entry of a Fatal
\* call, the process eventually exits with status 1, whatever the writes of that
\* entry did.
C4_FatalEventuallyExits ==
    \A p \in Procs : C4_FatalReceived(p) ~> (exited = <<1>>)

\* the process exited after a FATAL entry whose write failed on Out and was
\* written in full, after the synthetic entry, to the default sink
C4_Witness ==
    /\ exited = <<1>>
    /\ \E i \in DOMAIN log :
          /\ log[i].e.level = FatalLevel
          /\ FailedOn(i, Out.id)
          /\ Out.id # defaultOut
          /\ ~FailedOn(i, defaultOut)
          /\ Handled(log[i])

----------------------------------------------------------------------------
(* C5 *)

\* the Write calls, failed or not, that record i made on the default sink
C5_FallbackCalls(i) ==
    SelectSeq(log[i].ev, LAMBDA x : x.op \in {"Write", "WriteErr"} /\ x.w = defaultOut)

\* the byte slices record i put on the default sink
C5_FallbackWrites(i) ==
    LET ok == SelectSeq(C5_FallbackCalls(i), LAMBDA x : x.op = "Write")
    IN [j \in DOMAIN ok |-> ok[j].b]

\* the entries whose loop body is over and whose write failed on an Out that is
\* not the default sink
C5_FailedOnOut == {i \in DOMAIN log : log[i].fin /\ Out.id # defaultOut /\ FailedOn(i, Out.id)}

\* the two lines of the fallback: the report of the failure, then the entry
C5_TwoLines(i) ==
    printOut(SyntheticEntry, DisplayTimestamp) \o printOut(log[i].e, DisplayTimestamp)

\* the statement as the specification words it: whenever the write of an entry
\* failed on an Out other than the default sink, the default sink got exactly
\* the two complete lines for it
C5_AlwaysTwoLines ==
    \A i \in C5_FailedOnOut : C5_FallbackWrites(i) = C5_TwoLines(i)

\* C5: when the write of an entry failed on an Out other than the default sink,
\* the worker makes, after the failed Write, two printOut calls on the default
\* sink and no other call on it: the synthetic ERROR entry "Could not write to
\* error Out" with the error under "err", then the entry itself. Each call
\* writes its whole line unless one of its own Writes fails, which cuts that
\* line short but does not stop the second call; so the default sink holds
\* exactly the two lines provided its Writes succeed. An entry whose write on
\* Out succeeded puts nothing on the default sink.
C5_TwoFallbackLines ==
    \A i \in DOMAIN log :
        (log[i].fin /\ Out.id # defaultOut) =>
           LET fb == C5_FallbackCalls(i)
               a2 == Attempt(fb, 1, defaultOut, printOut(SyntheticEntry, DisplayTimestamp))
               a3 == Attempt(fb, 1 + a2.n, defaultOut, printOut(log[i].e, DisplayTimestamp))
           IN IF FailedOn(i, Out.id)
              THEN /\ a2.ok \/ a2.failed
                   /\ a3.ok \/ a3.failed
                   /\ Len(fb) = a2.n + a3.n
                   /\ ~FailedOn(i, defaultOut) => C5_FallbackWrites(i) = C5_TwoLines(i)
                   /\ \A j, k \in DOMAIN log[i].ev :
                         (log[i].ev[j].w = Out.id /\ log[i].ev[j].op \in {"Write", "WriteErr"}
                            /\ log[i].ev[k].w = defaultOut) => j < k
              ELSE fb = <<>>

\* an entry with an attribute failed on Out at its second slice, and the default
\* sink holds the report and the entry, each as a whole line
C5_Witness ==
    \E i \in C5_FailedOnOut :
        /\ Len(log[i].e.kv) > 0
        /\ log[i].e.level # FatalLevel
        /\ log[i].ev[2].op = "WriteErr"
        /\ ~FailedOn(i, defaultOut)
        /\ SinkWrites(defaultOut) = C5_TwoLines(i)

----------------------------------------------------------------------------
(* C6 *)

\* the five level names, in upper case
C6_LevelNames ==
    {<<68, 69, 66, 85, 71>>, <<73, 78, 70, 79>>, <<87, 65, 82, 78>>,
     <<69, 82, 82, 79, 82>>, <<70, 65, 84, 65, 76>>}

\* s is a level name, whatever the case of its letters
C6_IsLevelName(s) ==
    \E n \in C6_LevelNames :
        /\ Len(s) = Len(n)
        /\ \A i \in DOMAIN s : s[i] = n[i] \/ s[i] = n[i] + 32

\* C6: the last SetLevelFromString call, if its string is not one of the five
\* level names in any case, returned an error and the threshold GetLevel gave
\* right after the call is the one it gave right before it.
C6_BogusLevelKeepsThreshold ==
    (ret.called /\ ~C6_IsLevelName(ret.arg)) =>
        /\ ret.err # Nil
        /\ ret.err.kind = "error"
        /\ ret.post = ret.pre

\* SetLevelFromString("BOGUS") returned an error at threshold WARN, which is not
\* the initial one, and the threshold is still WARN
C6_Witness ==
    /\ ret.called
    /\ ret.arg = <<66, 79, 71, 85, 83>>
    /\ ret.err # Nil
    /\ ret.pre = WarnLevel
    /\ ret.post = WarnLevel
    /\ currLevel = WarnLevel

----------------------------------------------------------------------------
(* C7 *)

\* the call of producer p was not Fatal and its entry has been received
C7_ReceivedNonFatal(p) ==
    \E i \in RecordsOf(p) : log[i].e.level # FatalLevel

\* what a failed Write leaves untouched: a non-fatal call whose entry was
\* received has returned, a Fatal caller is waiting for its blockCh and nothing
\* else, and every entry whose loop body is over, also one received after a
\* failed Write, went through the whole loop body
C7_ProducersUnaffected ==
    /\ \A p \in Procs :
          /\ C7_ReceivedNonFatal(p) => pc[p] = "done"
          /\ pc[p] = "wait" => hist[p].l = FatalLevel /\ blockCh[p] \in {"open", "closed"}
          /\ pc[p] \in {"idle", "send", "wait", "done"}
    /\ \A i \in DOMAIN log : log[i].fin => Handled(log[i])

\* the entry of p, blocked at the send, is received and its loop body comes to
\* its end, unless the process exits through a Fatal call first
C7_SubmittedIsProcessed(p) ==
    (pc[p] = "send") ~> (exited = <<1>> \/ \E i \in RecordsOf(p) : log[i].fin)

\* C7: whatever Writes fail, a non-fatal emit call returns as soon as its entry
\* is received and the caller sees nothing of the failure; and under fair
\* scheduling every submitted entry, also one submitted after an entry whose
\* write failed, is received and processed to the end of the loop body, unless
\* the process exits through a Fatal call first.
C7_FailuresStayInWorker ==
    /\ []C7_ProducersUnaffected
    /\ \A p \in Procs : C7_SubmittedIsProcessed(p)

\* the write of the first entry failed on Out and on the default sink, both
\* callers have returned, and the second entry is on Out as a whole line
C7_Witness ==
    /\ Len(log) = 2
    /\ FailedOn(1, Out.id)
    /\ FailedOn(1, defaultOut)
    /\ Out.id # defaultOut
    /\ ~FailedOn(2, Out.id)
    /\ log[2].fin
    /\ \A p \in Procs : pc[p] = "done"
    /\ SinkWrites(Out.id) = printOut(log[2].e, DisplayTimestamp)

----------------------------------------------------------------------------
(* C8 *)

\* the argument lists over the heap h whose merged map is m
C8_SameMerged(h, m) ==
    LET R == 0..Len(h)
        lists == {<<>>} \cup {<<a>> : a \in R} \cup {<<a, b>> : a, b \in R}
                 \cup {<<a, b, c>> : a, b, c \in R}
    IN {kvs \in lists : MergeLoop(h, EmptyMap, kvs, 1) = m}

\* C8: the pairs kvNormalize returned are in strictly increasing order of key,
\* hold every key of the merged map once and with its value, and are the same
\* for every order in which range may yield the keys and for every argument
\* list that merges to the same map.
C8_PairsSortedByKey ==
    kvOp.op = "kvNormalize" =>
        LET res == kvOp.res
            mg == heap[kvOp.ret]
        IN /\ \A i \in 1..(Len(res) - 1) : StrLess(res[i].K, res[i + 1].K)
           /\ {res[i].K : i \in DOMAIN res} = DOMAIN mg
           /\ Len(res) = Cardinality(DOMAIN mg)
           /\ \A i \in DOMAIN res : res[i].V = mg[res[i].K]
           /\ \A order \in RangeOrders(mg) : kvTo(mg, order) = res
           /\ \A kvs \in C8_SameMerged(kvOp.pre, mg) :
                 \A order \in RangeOrders(mg) : kvNormalize(kvOp.pre, kvs, order) = res

\* kvNormalize of two maps that share the key "a": the pairs are "a", "ab", "b"
C8_Witness ==
    /\ kvOp.op = "kvNormalize"
    /\ Len(kvOp.args) = 2
    /\ Len(kvOp.res) = 3
    /\ kvOp.res[1].K = <<97>>
    /\ kvOp.res[2].K = <<97, 98>>
    /\ kvOp.res[3].K = <<98>>

----------------------------------------------------------------------------
(* C9 *)

\* the maps passed to the last Merge call
C9_Arg(i) == Deref(kvOp.pre, kvOp.args[i])

\* C9: the map Merge returned is a new, non-nil map whose keys are those of all
\* its arguments; each key has the value of the rightmost argument that holds
\* it; with no argument, or nil and empty ones only, the map is empty; the
\* arguments are left as they were.
C9_MergeRightmostWins ==
    kvOp.op = "Merge" =>
        LET m == heap[kvOp.ret]
            n == Len(kvOp.args)
        IN /\ kvOp.ret # 0
           /\ kvOp.ret \notin 1..Len(kvOp.pre)
           /\ DOMAIN m = UNION {DOMAIN C9_Arg(i) : i \in 1..n}
           /\ \A k \in DOMAIN m :
                 \E i \in 1..n :
                    /\ k \in DOMAIN C9_Arg(i)
                    /\ \A j \in (i + 1)..n : k \notin DOMAIN C9_Arg(j)
                    /\ m[k] = C9_Arg(i)[k]
           /\ (\A i \in 1..n : C9_Arg(i) = EmptyMap) => m = EmptyMap
           /\ \A r \in 1..Len(kvOp.pre) : heap[r] = kvOp.pre[r]

\* Merge(A, B) where A and B give "a" different values: the result has B's
C9_Witness ==
    /\ kvOp.op = "Merge"
    /\ Len(kvOp.args) = 2
    /\ kvOp.args[1] # 0 /\ kvOp.args[2] # 0
    /\ <<97>> \in DOMAIN C9_Arg(1) \cap DOMAIN C9_Arg(2)
    /\ C9_Arg(1)[<<97>>] # C9_Arg(2)[<<97>>]
    /\ heap[kvOp.ret][<<97>>] = C9_Arg(2)[<<97>>]
    /\ Cardinality(DOMAIN heap[kvOp.ret]) = 3

----------------------------------------------------------------------------
(* C10 *)

\* the receiver's map before the last Copy or Set call
C10_Receiver == Deref(kvOp.pre, kvOp.recv)

\* C10: after Copy or Set every map that existed before the call, the receiver
\* among them, has the keys and values it had; the result is a non-nil map that
\* is none of them, also for a nil or empty receiver; the result of Copy has
\* the receiver's pairs, the result of Set has them with k mapped to v.
C10_ReceiverUnchanged ==
    kvOp.op \in {"Copy", "Set"} =>
        LET m == heap[kvOp.ret]
        IN /\ Len(heap) >= Len(kvOp.pre)
           /\ \A r \in 1..Len(kvOp.pre) : heap[r] = kvOp.pre[r]
           /\ kvOp.ret # 0
           /\ kvOp.ret \notin 1..Len(kvOp.pre)
           /\ kvOp.op = "Copy" => m = C10_Receiver
           /\ kvOp.op = "Set" =>
                 /\ DOMAIN m = DOMAIN C10_Receiver \cup {kvOp.k}
                 /\ m[kvOp.k] = kvOp.v
                 /\ \A k \in DOMAIN C10_Receiver \ {kvOp.k} : m[k] = C10_Receiver[k]

\* Set("a", "z") on a map that gives "a" another value: the receiver still has it
C10_Witness ==
    /\ kvOp.op = "Set"
    /\ kvOp.recv # 0
    /\ kvOp.k \in DOMAIN C10_Receiver
    /\ C10_Receiver[kvOp.k] # kvOp.v
    /\ heap[kvOp.recv][kvOp.k] = C10_Receiver[kvOp.k]
    /\ heap[kvOp.ret][kvOp.k] = kvOp.v

----------------------------------------------------------------------------
(* C11 *)

\* the level names as the lines show them
C11_LevelName(l) ==
    CASE l = DebugLevel -> <<68, 69, 66, 85, 71>>
      [] l = InfoLevel  -> <<73, 78, 70, 79>>
      [] l = WarnLevel  -> <<87, 65, 82, 78>>
      [] l = ErrorLevel -> <<69, 82, 82, 79, 82>>
      [] l = FatalLevel -> <<70, 65, 84, 65, 76>>

\* a value of printable characters other than the backslash, between double
\* quotes, its own double quotes turned into single ones
C11_Quoted(v) == <<34>> \o [i \in DOMAIN v |-> IF v[i] = 34 THEN 39 ELSE v[i]] \o <<34>>

\* " key=quoted-value" for the attributes from the i-th on
RECURSIVE C11_Attrs(_, _)
C11_Attrs(kvl, i) ==
    IF i > Len(kvl) THEN <<>>
    ELSE <<32>> \o kvl[i].K \o <<61>> \o C11_Quoted(kvl[i].V.s) \o C11_Attrs(kvl, i + 1)

\* the line of an entry, byte by byte
C11_Line(en, ts) ==
    <<126, 32>>
    \o (IF ts THEN <<91>> \o TimeNowString \o <<93, 32>> ELSE <<>>)
    \o C11_LevelName(en.level) \o <<32, 45, 45, 32>> \o en.msg
    \o (IF Len(en.kv) > 0 THEN <<32, 45, 45>> \o C11_Attrs(en.kv, 1) ELSE <<>>)
    \o <<10>>

\* "~ INFO -- bar\n", "~ WARN -- baz\n", "~ ERROR -- buz\n"
C11_TestLines ==
    {<<126, 32, 73, 78, 70, 79, 32, 45, 45, 32, 98, 97, 114, 10>>,
     <<126, 32, 87, 65, 82, 78, 32, 45, 45, 32, 98, 97, 122, 10>>,
     <<126, 32, 69, 82, 82, 79, 82, 32, 45, 45, 32, 98, 117, 122, 10>>}

\* the bytes the writer of the last printOut call received
C11_Bytes == Flatten(po.buf)

----------------------------------------------------------------------------
(* C12 *)

\* C12: when the k-th Write of a printOut call fails, the writer has received
\* exactly the first k-1 byte slices of the line, in order, and none after
\* them: the line is left cut short, without its newline; and printOut returns
\* the error of that Write.
C12_StopsAtFirstFailedWrite ==
    (po.called /\ po.failAt > 0) =>
        LET chunks == printOut(po.e, po.ts)
        IN /\ po.failAt <= Len(chunks)
           /\ Len(po.buf) = po.failAt - 1
           /\ \A j \in DOMAIN po.buf : po.buf[j] = chunks[j]
           /\ \A j \in DOMAIN po.buf : po.buf[j] # newline
           /\ po.err = ErrWrite

\* the Write of the message, the fourth slice of a line with attributes, failed:
\* the writer holds "~ ", the level name and " -- " and nothing of what follows
C12_Witness ==
    /\ po.called
    /\ ~po.ts
    /\ po.failAt = 4
    /\ Len(po.e.kv) = 2
    /\ po.buf = <<prefix, Level_String(po.e.level), separatorSpace>>
    /\ po.err = ErrWrite

----------------------------------------------------------------------------
(* C13 *)

\* the Sync and Flush calls the worker made for record i
C13_Hooks(i) == SelectSeq(log[i].ev, LAMBDA x : x.op \in {"Sync", "Flush"})

\* the Sync and Flush calls sink w received
C13_SinkHooks(w) == SelectSeq(sink[w], LAMBDA x : x.op \in {"Sync", "Flush"})

\* C13: the worker calls Sync or Flush for FATAL entries only, at most once per
\* entry and always on Out, also when the entry went to the default sink after
\* a failed write: Sync when Out implements syncer, otherwise Flush when Out
\* implements flusher, otherwise neither; once the loop body of a FATAL entry is
\* over the call has been made. (A writer implements syncer or flusher when it
\* has a Sync() or Flush() method without result.)
C13_OneHookOnOutForFatalOnly ==
    /\ \A i \in DOMAIN log :
          LET hooks == C13_Hooks(i)
          IN /\ log[i].e.level # FatalLevel => hooks = <<>>
             /\ Len(hooks) <= 1
             /\ \A j \in DOMAIN hooks :
                   /\ hooks[j].w = Out.id
                   /\ Out.sync => hooks[j].op = "Sync"
                   /\ ~Out.sync => hooks[j].op = "Flush" /\ Out.flush
             /\ (log[i].fin /\ log[i].e.level = FatalLevel) =>
                   Len(hooks) = IF Out.sync \/ Out.flush THEN 1 ELSE 0
    /\ \A w \in SinkIds : w # Out.id => C13_SinkHooks(w) = <<>>
    /\ Len(C13_SinkHooks(Out.id)) =
          Cardinality({i \in DOMAIN log : C13_Hooks(i) # <<>>})

\* a FATAL entry whose write failed on an Out that implements flusher only: it
\* was written to the default sink and Out, not the default sink, was flushed
C13_Witness ==
    \E i \in DOMAIN log :
        /\ log[i].fin
        /\ log[i].e.level = FatalLevel
        /\ Out.flush /\ ~Out.sync
        /\ FailedOn(i, Out.id)
        /\ ~FailedOn(i, defaultOut)
        /\ C13_Hooks(i) = <<[op |-> "Flush", w |-> Out.id, b |-> <<>>]>>
        /\ C13_SinkHooks(Out.id) = <<[op |-> "Flush", b |-> <<>>]>>

----------------------------------------------------------------------------
(* C14 *)

\* the entries the worker has received and not finished
C14_InHand == {i \in DOMAIN log : ~log[i].fin}

\* C14: a call that passed the gate has returned, or in Fatal has gone on to wait
\* for its blockCh, only if the worker has received its entry; a producer at
\* the send still holds its entry, which the worker has not received; the
\* worker has at most one entry in hand, the last one it received, and none
\* when it is at the receive; every entry that passed the gate is either held
\* by its producer at the send or was received exactly once.
C14_Backpressure ==
    /\ \A p \in Procs :
          /\ (Accepted(p) /\ pc[p] \in {"done", "wait"}) => Cardinality(RecordsOf(p)) = 1
          /\ pc[p] = "send" => Accepted(p) /\ RecordsOf(p) = {} /\ pend[p] # NoEntry
          /\ pc[p] # "send" => pend[p] = NoEntry
          /\ Accepted(p) => (pc[p] = "send" \/ RecordsOf(p) # {})
    /\ Cardinality(C14_InHand) <= 1
    /\ C14_InHand \subseteq {Len(log)}
    /\ wpc = "recv" <=> C14_InHand = {}
    /\ wpc # "recv" => e = log[Len(log)].e

\* one producer is blocked at the send while the worker is in the fallback
\* writes of the other producer's entry
C14_Witness ==
    \E p, q \in Procs :
        /\ pc[p] = "send"
        /\ pend[p].level = WarnLevel
        /\ RecordsOf(q) = {1}
        /\ C14_InHand = {1}
        /\ wpc = "fallback"
        /\ pc[q] = "done"

----------------------------------------------------------------------------
(* C15 *)

\* record j has put a byte slice on some sink
C15_Written(j) == \E k \in DOMAIN log[j].ev : log[j].ev[k].op = "Write"

\* C15: once the loop body of a FATAL entry is over, no entry the worker
\* receives after it is written to Out or to the default sink.
C15_FatalIsLastEntry ==
    \A i, j \in DOMAIN log :
        (log[i].e.level = FatalLevel /\ log[i].fin /\ i < j) => ~C15_Written(j)

----------------------------------------------------------------------------
(* C16 *)

\* producer p called Fatal and read a threshold above FatalLevel
C16_FatalAboveThreshold(p) ==
    hist[p].called /\ hist[p].l = FatalLevel /\ hist[p].t > FatalLevel

\* C16: a Fatal call that read a threshold above FatalLevel submits no entry:
\* the worker never receives one from it, so nothing is written and no Sync or
\* Flush is made for it; its blockCh is never closed, so the call never reaches
\* os.Exit: it stays at the receive on blockCh, and if the process has exited,
\* it is through another Fatal call, whose blockCh is closed.
C16_FatalBelowThresholdDoesNothing ==
    \A p \in Procs :
        C16_FatalAboveThreshold(p) =>
            /\ RecordsOf(p) = {}
            /\ pend[p] = NoEntry
            /\ pc[p] = "wait"
            /\ blockCh[p] = "open"
            /\ exited # NotExited =>
                  \E q \in Procs \ {p} : pc[q] = "wait" /\ blockCh[q] = "closed"

\* a Fatal call made at threshold FatalLevel + 1 left nothing, while the Error
\* call of the other producer, made after the threshold was lowered, has its
\* line on Out, the only one
C16_Witness ==
    \E p, q \in Procs :
        /\ C16_FatalAboveThreshold(p)
        /\ hist[q].called /\ hist[q].l = ErrorLevel
        /\ RecordsOf(q) = {1}
        /\ log[1].fin
        /\ Len(log) = 1
        /\ SinkWrites(Out.id) = printOut(log[1].e, DisplayTimestamp)
        /\ exited = NotExited

----------------------------------------------------------------------------
(* C17 *)

\* the byte slices record i put on sink w
C17_Slices(i, w) ==
    LET ok == SelectSeq(log[i].ev, LAMBDA x : x.op = "Write" /\ x.w = w)
    IN [j \in DOMAIN ok |-> ok[j].b]

\* the whole line of record i is on Out, or on the default sink as the last
\* thing written for it
C17_Written(i) ==
    LET line == printOut(log[i].e, DisplayTimestamp)
        fb == C17_Slices(i, defaultOut)
    IN \/ C17_Slices(i, Out.id) = line
       \/ /\ Len(fb) >= Len(line)
          /\ SubSeq(fb, Len(fb) - Len(line) + 1, Len(fb)) = line

\* every sink the worker tried for record i failed a Write
C17_WritesFailed(i) ==
    FailedOn(i, Out.id) /\ (Out.id = defaultOut \/ FailedOn(i, defaultOut))

\* producer p called Debug, Info, Warn or Error
C17_NonFatalCall(p) == hist[p].called /\ hist[p].l # FatalLevel

\* the statement as the specification words it: every non-fatal call returns
\* and, if it passed the gate, its entry is written
C17_EveryCallReturnsAndIsWritten ==
    \A p \in Procs :
        C17_NonFatalCall(p) ~>
            /\ pc[p] = "done"
            /\ Accepted(p) => \E i \in RecordsOf(p) : log[i].fin /\ C17_Written(i)

\* the worker is never stuck: inside the loop body its next step can be taken,
\* and at the receive it takes the entry of any producer at the send
C17_WorkerGoesOn ==
    Running =>
        /\ wpc \in {"recv", "printOut", "erre", "fallback", "hook", "close"}
        /\ wpc \in {"printOut", "erre", "fallback"} => ENABLED WriteOk
        /\ wpc = "hook" => ENABLED SyncOrFlush
        /\ wpc = "close" => ENABLED Close
        /\ \A p \in Procs : (wpc = "recv" /\ pc[p] = "send") => ENABLED Recv(p)

\* C17: under fair scheduling, unless the process exits through a Fatal call
\* first, every call to Debug, Info, Warn or Error returns, and the entry of a
\* call that passed the gate goes through the whole loop body and is written
\* in full to Out or to the default sink unless Writes failed on every sink
\* tried for it; as long as the process runs the worker is never stuck.
C17_NonFatalCallsReturn ==
    /\ []C17_WorkerGoesOn
    /\ \A p \in Procs :
          C17_NonFatalCall(p) ~>
              \/ exited = <<1>>
              \/ /\ pc[p] = "done"
                 /\ Accepted(p) =>
                       \E i \in RecordsOf(p) :
                           log[i].fin /\ (C17_Written(i) \/ C17_WritesFailed(i))

\* both producers made non-fatal calls that passed the gate and have returned;
\* the first entry received is on Out in full, the second only on the default
\* sink, after a failed Write on Out
C17_Witness ==
    /\ \A p \in Procs : C17_NonFatalCall(p) /\ Accepted(p) /\ pc[p] = "done"
    /\ Len(log) = 2
    /\ log[2].fin
    /\ C17_Slices(1, Out.id) = printOut(log[1].e, DisplayTimestamp)
    /\ FailedOn(2, Out.id)
    /\ ~FailedOn(2, defaultOut)
    /\ C17_Written(2)

----------------------------------------------------------------------------
(* C18 *)

\* the Write calls, failed or not, the worker made for record i
C18_Calls(i) == SelectSeq(log[i].ev, LAMBDA x : x.op \in {"Write", "WriteErr"})

\* the message of the synthetic entry: "Could not write to error Out"
C18_ReportMsg == SyntheticEntry.msg

\* C18: when Out is the default sink and a Write of an entry fails, the failed
\* Write is the last Write call the worker makes for that entry: the slices
\* before it stay on the sink as a line cut short, no report of the failure and
\* no second rendering of the entry follow, and the worker goes on with the
\* rest of the loop body; the sink holds what each entry put on it, in order.
C18_NoFallbackOnDefaultSink ==
    Out.id = defaultOut =>
        /\ \A i \in DOMAIN log :
              FailedOn(i, defaultOut) =>
                 LET calls == C18_Calls(i)
                     a1 == Attempt(calls, 1, defaultOut, printOut(log[i].e, DisplayTimestamp))
                 IN /\ a1.failed
                    /\ Len(calls) = a1.n
                    /\ calls[Len(calls)].op = "WriteErr"
                    /\ \A j \in DOMAIN calls : calls[j].b # C18_ReportMsg
                    /\ Len(C17_Slices(i, defaultOut)) = a1.n - 1
                    /\ (i < Len(log) \/ wpc = "recv") => log[i].fin
        /\ SinkWrites(defaultOut) = Flatten([i \in DOMAIN log |-> C17_Slices(i, defaultOut)])
        /\ sink["out"] = <<>>

\* on the default sink the first entry lost its Write of the level name: "~ "
\* is all there is of it, and the line of the second entry follows
C18_Witness ==
    /\ Out.id = defaultOut
    /\ Len(log) = 2
    /\ log[2].fin
    /\ Len(log[1].ev) = 2
    /\ log[1].ev[2].op = "WriteErr"
    /\ ~FailedOn(2, defaultOut)
    /\ SinkWrites(defaultOut) = <<prefix>> \o printOut(log[2].e, DisplayTimestamp)

----------------------------------------------------------------------------
(* C19 *)

\* the whole line of record i is on Out: its last slice is the newline
C19_LineOnOut(i) ==
    LET sl == C17_Slices(i, Out.id)
    IN Len(sl) > 0 /\ sl[Len(sl)] = newline /\ sl[1] = prefix

\* the entries in the pipeline passed the gate at the threshold their call
\* read, whatever the threshold is now; the worker takes the entry of a
\* producer at the send without looking at the threshold, and writes its line
C19_NoSecondCheck ==
    /\ \A p \in Procs : pc[p] = "send" => pend[p].level >= hist[p].t
    /\ \A p \in Procs : (Running /\ wpc = "recv" /\ pc[p] = "send") => ENABLED Recv(p)
    /\ \A i \in DOMAIN log :
          /\ log[i].e.level >= hist[log[i].from].t
          /\ log[i].fin => C19_LineOnOut(i)

\* an emit call reads the threshold in force when it is made, once, and submits
\* its entry exactly if its level is not below it
C19_CallReadsThreshold ==
    \A p \in Procs :
        (~hist[p].called /\ hist'[p].called) =>
            /\ hist'[p].t = currLevel
            /\ currLevel' = currLevel
            /\ pc'[p] = "send" <=> hist'[p].l >= currLevel
            /\ hist'[p].l < currLevel => pend'[p] = NoEntry

\* C19: the threshold is read once per emit call, when the call is made: a
\* call made at threshold T, the value the last SetLevel set, submits an entry
\* only if its level is not below T; the worker does not read the threshold, so
\* an entry that passed the gate is received and written also when SetLevel
\* has raised the threshold above its level while its producer was at the send.
C19_GateReadOnceAtCall ==
    /\ []C19_NoSecondCheck
    /\ [][C19_CallReadsThreshold]_vars

\* the threshold was raised above the level of an entry while its producer was
\* at the send; the worker received it and its line is on Out, while the other
\* producer's call, made at the raised threshold with a lower level, left nothing
C19_Witness ==
    \E i \in DOMAIN log :
        /\ log[i].below
        /\ log[i].fin
        /\ C19_LineOnOut(i)
        /\ currLevel > log[i].e.level
        /\ \E q \in Procs \ {log[i].from} :
              /\ hist[q].called
              /\ hist[q].t = currLevel
              /\ hist[q].l < currLevel
              /\ pc[q] = "done"
              /\ RecordsOf(q) = {}

====
